---- MODULE Spec2Model ----
(***************************************************************************)
(* Model of src/commands/utils.rs of Komac:                                *)
(*   prompt_existing_pull_request  - the duplicate-submission guard        *)
(*   write_changes_to_dir          - the bounded change writer             *)
(*                                                                         *)
(* Paths, file names and contents are sequences of one-character strings,  *)
(* so that Path::file_name is computed from the characters of the path.    *)
(* The two functions share no state; each has its own specification over   *)
(* the same variables (SpecPrompt, Spec, SpecLive, SpecTwice).             *)
(***************************************************************************)
EXTENDS Naturals, Sequences, FiniteSets, TLC

VARIABLES
    \* ---- prompt_existing_pull_request ----
    ppc,          \* position in the function: "print", "url", "decide", "done"
    identifier,   \* argument: package identifier (display only)
    version,      \* argument: package version (display only)
    pull_request, \* argument: [state, created_at, url]
    ciEnv,        \* environment: the process's CI variable
    user,         \* environment: what the terminal answers to a Confirm prompt
    stdout,       \* the lines printed so far
    prompts,      \* the Confirm prompts shown so far (their questions)
    presult,      \* the function's return value, NoReturn before it returns
    \* ---- write_changes_to_dir ----
    wpc,          \* position in the function: "mkdir", "stream", "ret"
    changes,      \* argument: sequence of [path, content]
    dirOk,        \* environment: can the output directory be created
    fsKind,       \* environment: per file name, "ok", "ro" or "full"
    dirExists,    \* file system: the output directory exists
    files,        \* file system: file name -> bytes, for the files in output
    next,         \* index of the next entry the stream has not yet yielded
    st,           \* per entry: where its future and its write are
    wresult,      \* the current call's return value, NoReturn before it returns
    returns,      \* history: one record per call that has returned
    late,         \* writes of earlier calls still with the blocking pool
    ready,        \* the buffer's queue of futures to poll, first to last
    mkdirRes      \* what create_dir_all has come to: "none", "ok" or "err"

pvars == <<ppc, identifier, version, pull_request, ciEnv, user, stdout, prompts, presult>>
wvars == <<wpc, changes, dirOk, fsKind, dirExists, files, next, st, wresult, returns, late, ready, mkdirRes>>
vars == <<ppc, identifier, version, pull_request, ciEnv, user, stdout, prompts, presult,
          wpc, changes, dirOk, fsKind, dirExists, files, next, st, wresult, returns, late, ready, mkdirRes>>

----------------------------------------------------------------------------
\* Bounds of the model

\* longest change set handed to write_changes_to_dir
MaxEntries == 3
\* calls of write_changes_to_dir in a row on the same directory (SpecTwice)
MaxCalls == 2
\* longest change set handed to the calls in a row (SpecTwice)
MaxTwice == 2

----------------------------------------------------------------------------
\* Path::file_name (std::path, Unix separators)

SEP == "/"

\* The segments of a path between separators, empty segments included.
RECURSIVE SplitFrom(_, _, _)
SplitFrom(path, i, cur) ==
    IF i > Len(path) THEN <<cur>>
    ELSE IF path[i] = SEP THEN <<cur>> \o SplitFrom(path, i + 1, <<>>)
    ELSE SplitFrom(path, i + 1, Append(cur, path[i]))

Segments(path) == SplitFrom(path, 1, <<>>)

HasRoot(path) == Len(path) > 0 /\ path[1] = SEP

\* Path::components: RootDir for a leading separator, CurDir only for a
\* leading ".", ParentDir for "..", Normal otherwise; empty segments and
\* other "." segments are dropped.
RECURSIVE ComponentsFrom(_, _, _)
ComponentsFrom(segs, k, rooted) ==
    IF k > Len(segs) THEN <<>>
    ELSE LET s == segs[k]
             rest == ComponentsFrom(segs, k + 1, rooted)
         IN  IF s = <<>> THEN rest
             ELSE IF s = <<".">>
                  THEN IF k = 1 /\ ~rooted
                       THEN <<[kind |-> "CurDir", name |-> s]>> \o rest
                       ELSE rest
             ELSE IF s = <<".", ".">>
                  THEN <<[kind |-> "ParentDir", name |-> s]>> \o rest
             ELSE <<[kind |-> "Normal", name |-> s]>> \o rest

Components(path) ==
    (IF HasRoot(path) THEN <<[kind |-> "RootDir", name |-> <<SEP>>]>> ELSE <<>>)
        \o ComponentsFrom(Segments(path), 1, HasRoot(path))

None == [some |-> FALSE, name |-> <<>>]
Some(n) == [some |-> TRUE, name |-> n]

\* Variant of FileName: the path is used as it is (output.join(path)).
FileNameWhole(path) == IF path = <<>> THEN None ELSE Some(path)

\* Path::new(path).file_name(): the last component if it is Normal.
FileName(path) ==
    LET cs == Components(path)
    IN  IF Len(cs) > 0 /\ cs[Len(cs)].kind = "Normal"
        THEN Some(cs[Len(cs)].name)
        ELSE None

----------------------------------------------------------------------------
\* prompt_existing_pull_request

\* PullRequestState: the three states of the schema and the generated
\* catch-all for a state the schema does not know.
PullRequestStates == {"Merged", "Open", "Closed", "Other"}

\* The CI variable: unset, set to a string, or set to bytes that are not
\* Unicode (env::var is Err for both unset and not Unicode).
Unset == [set |-> FALSE, unicode |-> TRUE, val |-> ""]
NotUnicode == [set |-> TRUE, unicode |-> FALSE, val |-> ""]
SetTo(v) == [set |-> TRUE, unicode |-> TRUE, val |-> v]
CiValues == {"true", "false", "1", "TRUE", "yes", ""}
CiEnvs == {Unset, NotUnicode} \cup { SetTo(v) : v \in CiValues }

\* The terminal: the user confirms, declines, or the input stream is closed.
Users == {"yes", "no", "closed"}

NoAnswer == [kind |-> "none", val |-> FALSE]
Ok(b) == [kind |-> "ok", val |-> b]
Err == [kind |-> "err", val |-> FALSE]

\* Variant of StateArticle: Closed is matched by name and the catch-all arm
\* reads "an open".
StateArticleClosedNamed(state) ==
    CASE state = "Merged" -> "a merged"
      [] state = "Closed" -> "a closed"
      [] OTHER -> "an open"

\* match pull_request.state { Merged => .., Open => .., _ => .. }
StateArticle(state) ==
    CASE state = "Merged" -> "a merged"
      [] state = "Open" -> "an open"
      [] OTHER -> "a closed"

\* The first println!: the format string with its arguments filled in.
StatusLine(id, ver, pr) ==
    << "There is already ", StateArticle(pr.state), " pull request for ", id, " ", ver,
       " that was created on ", pr.created_at.date, " at ", pr.created_at.time >>

\* pull_request.url.as_str().blue()
Blue(text) == [text |-> text, color |-> "blue"]

\* env::var("CI")
EnvVar(env) == IF env.set /\ env.unicode THEN [ok |-> TRUE, val |-> env.val]
               ELSE [ok |-> FALSE, val |-> ""]

\* Variant of BoolFromStr: a parser of "1" and "0".
BoolFromDigit(s) ==
    CASE s = "1" -> Ok(TRUE)
      [] s = "0" -> Ok(FALSE)
      [] OTHER -> Err

\* Variant of BoolFromStr: the literals are matched without regard to case.
BoolFromStrAnyCase(s) ==
    CASE s \in {"true", "True", "TRUE"} -> Ok(TRUE)
      [] s \in {"false", "False", "FALSE"} -> Ok(FALSE)
      [] OTHER -> Err

\* bool::from_str: exactly "true" and "false" parse.
BoolFromStr(s) ==
    CASE s = "true" -> Ok(TRUE)
      [] s = "false" -> Ok(FALSE)
      [] OTHER -> Err

\* Variant of IsCI: CI unless the variable parses as false
\* (map_or(true, ..) in place of is_ok_and).
IsCIUnlessFalse(env) == ~EnvVar(env).ok \/ BoolFromStr(EnvVar(env).val) # Ok(FALSE)

\* env::var("CI").is_ok_and(|ci| bool::from_str(&ci) == Ok(true))
IsCI(env) == EnvVar(env).ok /\ BoolFromStr(EnvVar(env).val) = Ok(TRUE)

Question == "Would you like to proceed?"

\* Variant of ConfirmPrompt: a prompt error reads as "no"
\* (prompt().unwrap_or(false) in place of prompt()?).
ConfirmPromptOrFalse(u) == Ok(u = "yes")

\* Confirm::new(..).prompt(): the user's answer, or an error.
ConfirmPrompt(u) == IF u = "closed" THEN Err ELSE Ok(u = "yes")

PrintStatus ==
    /\ ppc = "print"
    /\ stdout' = Append(stdout, StatusLine(identifier, version, pull_request))
    /\ ppc' = "url"
    /\ UNCHANGED <<identifier, version, pull_request, ciEnv, user, prompts, presult>>
    /\ UNCHANGED wvars

PrintUrl ==
    /\ ppc = "url"
    /\ stdout' = Append(stdout, Blue(pull_request.url))
    /\ ppc' = "decide"
    /\ UNCHANGED <<identifier, version, pull_request, ciEnv, user, prompts, presult>>
    /\ UNCHANGED wvars

\* if CI { false }; Ok(proceed)
ReturnInCI ==
    /\ ppc = "decide"
    /\ IsCI(ciEnv)
    /\ presult' = Ok(FALSE)
    /\ ppc' = "done"
    /\ UNCHANGED <<identifier, version, pull_request, ciEnv, user, stdout, prompts>>
    /\ UNCHANGED wvars

\* else { Confirm::new("Would you like to proceed?").prompt()? }; Ok(proceed)
Confirm ==
    /\ ppc = "decide"
    /\ ~IsCI(ciEnv)
    /\ prompts' = Append(prompts, Question)
    /\ presult' = ConfirmPrompt(user)
    /\ ppc' = "done"
    /\ UNCHANGED <<identifier, version, pull_request, ciEnv, user, stdout>>
    /\ UNCHANGED wvars

----------------------------------------------------------------------------
\* The inputs of write_changes_to_dir

\* The (path, content) pairs change sets are built from:
\*   "a" and "x/a" (the same file name, contents of different lengths),
\*   "d/b", "../c", and the two paths without a file name, "" and "/".
EntryPool ==
    { [path |-> <<"a">>,                content |-> <<"h", "i">>],
      [path |-> <<"x", "/", "a">>,      content |-> <<"w", "o", "w">>],
      [path |-> <<"d", "/", "b">>,      content |-> <<"w", "o", "w">>],
      [path |-> <<".", ".", "/", "c">>, content |-> <<"h", "i">>],
      [path |-> <<>>,                   content |-> <<"h", "i">>],
      [path |-> <<"/">>,                content |-> <<"w", "o", "w">>] }

\* Path::new(path).file_name() of each path of the pool.
FileNameOf == [p \in { e.path : e \in EntryPool } |-> FileName(p)]

\* Path::new(path).file_name() of the path of an entry.
EntryFileName(path) ==
    IF path \in DOMAIN FileNameOf THEN FileNameOf[path] ELSE FileName(path)

\* The file names the pool's paths resolve to.
FileNames == { FileName(e.path).name : e \in { x \in EntryPool : FileName(x.path).some } }

\* What the file system does with a file name in the output directory:
\*   "ok"   - create and write succeed
\*   "ro"   - File::create fails (read-only destination)
\*   "full" - File::create succeeds, the write of a non-empty buffer fails
Kinds == {"ok", "ro", "full"}

ChangeSets == UNION { [1..n -> EntryPool] : n \in 0..MaxEntries }

\* The empty directory listing.
NoFiles == [n \in {} |-> <<>>]

NoReturn == [kind |-> "none", of |-> 0, op |-> "none"]
OkReturn == [kind |-> "ok", of |-> 0, op |-> "none"]
ErrReturn(i, op) == [kind |-> "err", of |-> i, op |-> op]

----------------------------------------------------------------------------
\* The file system operations of write_changes_to_dir

\* The kind of output.join(name). With an empty name the joined path is the
\* output directory itself, which cannot be created as a file.
KindOf(name) ==
    IF name \in DOMAIN fsKind THEN fsKind[name]
    ELSE IF name = <<>> THEN "ro"
    ELSE "ok"

\* Variant of FileCreate: create_new, which fails when the file exists.
FileCreateNew(fl, name) ==
    IF KindOf(name) = "ro" \/ name \in DOMAIN fl
    THEN [ok |-> FALSE, files |-> fl]
    ELSE [ok |-> TRUE, files |-> (name :> <<>>) @@ fl]

\* File::create: create the file or truncate it to length 0. The open runs
\* on the blocking pool; the future reads its result at a later poll.
FileCreate(fl, name) ==
    IF KindOf(name) = "ro"
    THEN [ok |-> FALSE, files |-> fl]
    ELSE [ok |-> TRUE, files |-> (name :> <<>>) @@ fl]

\* Variant of WriteAt0: the handle is in append mode.
WriteAppended(old, data) == old \o data

\* The bytes of a file after `data` is written at offset 0 of `old`.
WriteAt0(old, data) == data \o SubSeq(old, Len(data) + 1, Len(old))

\* The buffer of a file handle: write_all of at most this many bytes copies
\* them into the handle, hands the write to the blocking pool and is Ok at
\* once, before the write is performed.
MaxBufSize == 2097152

\* The contents the model covers: those one buffer of the handle takes.
WithinBuffer(data) == Len(data) <= MaxBufSize

\* The write the blocking pool performs for file.write_all(content): at the
\* handle's cursor, which is 0 whatever another handle has written since.
\* When it fails the file is as it was; the handle has been dropped without
\* a flush by then, so nothing reads the error.
BlockingWrite(fl, name, data) ==
    IF KindOf(name) = "full" /\ Len(data) > 0
    THEN [ok |-> FALSE, files |-> fl]
    ELSE [ok |-> TRUE, files |-> (name :> WriteAt0(fl[name], data)) @@ fl]

----------------------------------------------------------------------------
\* write_changes_to_dir

\* Variant of BufferLimit: buffer_unordered(0).
BufferLimitZero == 2 - 2

\* buffer_unordered(2)
BufferLimit == 2

Idx == 1..Len(changes)

\* The futures in the buffer: yielded by the stream and not yet resolved.
\* A future has not been polled yet ("pushed"), or it awaits File::create,
\* the only await that can be pending, write_all being Ok at once: the open
\* is still to be performed ("create"), or has been performed, with the file
\* in place ("created") or with an error ("create_failed"), and the future
\* has not been polled since.
InFlight == { i \in Idx : st[i] \in {"pushed", "create", "created", "create_failed"} }

\* The future the buffer polls next: the buffer polls its futures in the
\* order in which they were pushed or woken.
IsNext(i) == ready # <<>> /\ Head(ready) = i

\* The entries of this call whose future has resolved Ok with its write
\* handed to the blocking pool and not yet performed.
Outstanding == { i \in Idx : st[i] = "write" }

\* No write that a resolved future handed over is still to be performed.
Quiet == Outstanding = {} /\ late = {}

\* buffer_unordered pulls from the stream while the buffer has room, before
\* it polls the futures it holds.
CanPull == next <= Len(changes) /\ Cardinality(InFlight) < BufferLimit

\* The record of a call that returns `res` with the directory `fl`: the
\* result, and the directory the call leaves if that is settled at the
\* return, with no write still to be performed (one listing or none).
Returned(res, fl) == [result |-> res, final |-> IF Quiet THEN {fl} ELSE {}]

\* The blocking pool performs the mkdir that create_dir_all handed to it:
\* the directory is in place, or the mkdir fails. The task is still
\* suspended at the await.
BlockingCreateDirAll ==
    /\ wpc = "mkdir"
    /\ mkdirRes = "none"
    /\ dirExists' = (dirExists \/ dirOk)
    /\ mkdirRes' = IF dirOk THEN "ok" ELSE "err"
    /\ UNCHANGED <<wpc, changes, dirOk, fsKind, files, next, st, wresult, returns, late, ready>>
    /\ UNCHANGED pvars

\* Variant of CreateDirAll: the result of create_dir_all is discarded.
CreateDirAllUnchecked ==
    /\ wpc = "mkdir"
    /\ mkdirRes # "none"
    /\ wpc' = "stream"
    /\ UNCHANGED <<changes, dirOk, fsKind, dirExists, files, next, st, wresult, returns, late,
                   ready, mkdirRes>>
    /\ UNCHANGED pvars

\* fs::create_dir_all(output).await?
\* The task is polled once the mkdir has been performed: on an error the
\* call returns it, otherwise it goes on to the stream.
CreateDirAll ==
    /\ wpc = "mkdir"
    /\ mkdirRes # "none"
    /\ IF mkdirRes = "ok"
       THEN /\ wpc' = "stream"
            /\ UNCHANGED <<wresult, returns>>
       ELSE /\ wpc' = "ret"
            /\ wresult' = ErrReturn(0, "mkdir")
            /\ returns' = Append(returns, Returned(ErrReturn(0, "mkdir"), files))
    /\ UNCHANGED <<changes, dirOk, fsKind, dirExists, files, next, st, late, ready, mkdirRes>>
    /\ UNCHANGED pvars

\* Variant of Pull: the stream is polled while create_dir_all is pending
\* (the two joined in place of sequenced).
PullEarly ==
    /\ wpc \in {"mkdir", "stream"}
    /\ CanPull
    /\ st' = [st EXCEPT ![next] = "pushed"]
    /\ ready' = Append(ready, next)
    /\ next' = next + 1
    /\ UNCHANGED <<wpc, changes, dirOk, fsKind, dirExists, files, wresult, returns, late, mkdirRes>>
    /\ UNCHANGED pvars

\* Variant of Pull: the stream lives on after the call has returned
\* (a spawned task in place of an awaited stream).
PullDetached ==
    /\ wpc \in {"stream", "ret"}
    /\ CanPull
    /\ st' = [st EXCEPT ![next] = "pushed"]
    /\ ready' = Append(ready, next)
    /\ next' = next + 1
    /\ UNCHANGED <<wpc, changes, dirOk, fsKind, dirExists, files, wresult, returns, late, mkdirRes>>
    /\ UNCHANGED pvars

\* Variant of Pull: the change set is iterated from its end
\* (changes.iter().rev()).
PullReversed ==
    /\ wpc = "stream"
    /\ CanPull
    /\ LET k == Len(changes) + 1 - next
       IN  /\ st' = [st EXCEPT ![k] = "pushed"]
           /\ ready' = Append(ready, k)
    /\ next' = next + 1
    /\ UNCHANGED <<wpc, changes, dirOk, fsKind, dirExists, files, wresult, returns, late, mkdirRes>>
    /\ UNCHANGED pvars

\* The stream yields the next entry's future and the buffer pushes it: the
\* future has not run yet, it is polled in its turn.
Pull ==
    /\ wpc = "stream"
    /\ CanPull
    /\ st' = [st EXCEPT ![next] = "pushed"]
    /\ ready' = Append(ready, next)
    /\ next' = next + 1
    /\ UNCHANGED <<wpc, changes, dirOk, fsKind, dirExists, files, wresult, returns, late, mkdirRes>>
    /\ UNCHANGED pvars

\* try_collect on the first Err: the error is returned and the stream is
\* dropped, and with it the futures still in the buffer: one that was never
\* polled has done nothing ("unrun"), one whose open is still to be performed
\* leaves it with the blocking pool ("dropped_create"), one whose open has
\* been performed never reads its result ("dropped_created" with the file in
\* place, "dropped_failed" without). A future that has resolved is no longer
\* in the buffer: its write stays with the blocking pool.
Dropped(i, s) ==
    [j \in Idx |->
        IF j = i THEN "failed"
        ELSE IF s[j] = "pushed" THEN "unrun"
        ELSE IF s[j] = "create" THEN "dropped_create"
        ELSE IF s[j] = "created" THEN "dropped_created"
        ELSE IF s[j] = "create_failed" THEN "dropped_failed"
        ELSE s[j]]

\* Variant of FailWith: the files of the directory are removed on error,
\* with nothing of the call left outstanding.
FailWithCleanup(i, op) ==
    /\ st' = [j \in Idx |->
                IF Dropped(i, st)[j] \in {"dropped_create", "dropped_created"}
                THEN "dropped_failed"
                ELSE IF Dropped(i, st)[j] = "write" THEN "lost"
                ELSE Dropped(i, st)[j]]
    /\ wpc' = "ret"
    /\ wresult' = ErrReturn(i, op)
    /\ returns' = Append(returns, Returned(ErrReturn(i, op), NoFiles))
    /\ files' = NoFiles

\* Variant of FailWith: the files of the directory are emptied on error.
FailWithTruncate(i, op) ==
    /\ st' = Dropped(i, st)
    /\ wpc' = "ret"
    /\ wresult' = ErrReturn(i, op)
    /\ returns' = Append(returns, Returned(ErrReturn(i, op), files))
    /\ files' = [n \in DOMAIN files |-> <<>>]

FailWith(i, op) ==
    /\ st' = Dropped(i, st)
    /\ wpc' = "ret"
    /\ wresult' = ErrReturn(i, op)
    /\ returns' = Append(returns, Returned(ErrReturn(i, op), files))
    /\ UNCHANGED files

\* let mut file = File::create(output.join(file_name)).await?; at the first
\* poll of a future: the open is handed to the blocking pool and the future
\* is pending, unless the pool has performed the open by the time the future
\* looks for its result: the future then goes on within the same poll, to
\* write_all and Ok(()), or to the error of the open.
FirstCreate(i) ==
    \/ /\ st' = [st EXCEPT ![i] = "create"]
       /\ ready' = Tail(ready)
       /\ UNCHANGED <<files, wpc, wresult, returns>>
    \/ LET r == FileCreate(files, EntryFileName(changes[i].path).name)
       IN  IF r.ok
           THEN /\ files' = r.files
                /\ st' = [st EXCEPT ![i] = "write"]
                /\ ready' = Tail(ready)
                /\ UNCHANGED <<wpc, wresult, returns>>
           ELSE /\ FailWith(i, "create")
                /\ ready' = <<>>

\* Variant of FirstPoll: an entry without a file name is not skipped
\* (unwrap_or_default in place of if let Some).
FirstPollNoSkip(i) ==
    /\ wpc = "stream"
    /\ ~CanPull
    /\ IsNext(i)
    /\ st[i] = "pushed"
    /\ FirstCreate(i)
    /\ UNCHANGED <<changes, dirOk, fsKind, dirExists, next, late, mkdirRes>>
    /\ UNCHANGED pvars

\* if let Some(file_name) = Path::new(path).file_name() { File::create(..)
\* The buffer polls a pushed future for the first time: with a file name the
\* future goes to File::create, without one it resolves Ok(()) at once.
FirstPoll(i) ==
    /\ wpc = "stream"
    /\ ~CanPull
    /\ IsNext(i)
    /\ st[i] = "pushed"
    /\ IF EntryFileName(changes[i].path).some
       THEN FirstCreate(i)
       ELSE /\ st' = [st EXCEPT ![i] = "skipped"]
            /\ ready' = Tail(ready)
            /\ UNCHANGED <<files, wpc, wresult, returns>>
    /\ UNCHANGED <<changes, dirOk, fsKind, dirExists, next, late, mkdirRes>>
    /\ UNCHANGED pvars

\* The blocking pool performs the open of File::create(output.join(..)) for
\* a future in the buffer: the file is created or truncated, or the open
\* fails. The future has not been woken yet.
BlockingCreateDone(i) ==
    /\ wpc = "stream"
    /\ st[i] = "create"
    /\ LET r == FileCreate(files, EntryFileName(changes[i].path).name)
       IN  /\ files' = r.files
           /\ st' = [st EXCEPT ![i] = IF r.ok THEN "created" ELSE "create_failed"]
    /\ UNCHANGED <<wpc, changes, dirOk, fsKind, dirExists, next, wresult, returns, late, ready,
                   mkdirRes>>
    /\ UNCHANGED pvars

\* The futures in the buffer's queue.
Queued == { ready[k] : k \in 1..Len(ready) }

\* The pool thread that performed the open of a future wakes it: the future
\* joins the buffer's queue, behind those pushed or woken before it, in
\* whatever order the opens were performed.
Wake(i) ==
    /\ wpc = "stream"
    /\ st[i] \in {"created", "create_failed"}
    /\ i \notin Queued
    /\ ready' = Append(ready, i)
    /\ UNCHANGED <<wpc, changes, dirOk, fsKind, dirExists, files, next, st, wresult, returns, late,
                   mkdirRes>>
    /\ UNCHANGED pvars

\* let mut file = File::create(output.join(file_name)).await?;
\* file.write_all(content.as_bytes()).await?; Ok(())
\* The buffer polls a woken future, whose open has been performed. On an error the
\* future resolves to it. Otherwise the future runs to its end in the same
\* poll: write_all hands the content to the blocking pool and is Ok, the
\* handle is dropped and the future resolves Ok, which frees its place in
\* the buffer. The file is still empty then.
CreateDone(i) ==
    /\ wpc = "stream"
    /\ ~CanPull
    /\ IsNext(i)
    /\ st[i] \in {"created", "create_failed"}
    /\ IF st[i] = "created"
       THEN /\ st' = [st EXCEPT ![i] = "write"]
            /\ ready' = Tail(ready)
            /\ UNCHANGED <<files, wpc, wresult, returns>>
       ELSE /\ FailWith(i, "create")
            /\ ready' = <<>>
    /\ UNCHANGED <<changes, dirOk, fsKind, dirExists, next, late, mkdirRes>>
    /\ UNCHANGED pvars

\* The blocking pool performs the write of an entry whose future has
\* resolved: while the stream runs or after the call has returned, Ok or an
\* error. A failed write leaves the file as it was and is reported nowhere.
BlockingWriteDone(i) ==
    /\ st[i] = "write"
    /\ LET r == BlockingWrite(files, EntryFileName(changes[i].path).name, changes[i].content)
       IN  /\ files' = r.files
           /\ st' = [st EXCEPT ![i] = IF r.ok THEN "done" ELSE "lost"]
    /\ UNCHANGED <<wpc, changes, dirOk, fsKind, dirExists, next, wresult, returns, late, ready, mkdirRes>>
    /\ UNCHANGED pvars

\* try_collect when the stream is exhausted and the buffer is empty: Ok(()).
ReturnOk ==
    /\ wpc = "stream"
    /\ next > Len(changes)
    /\ InFlight = {}
    /\ wpc' = "ret"
    /\ wresult' = OkReturn
    /\ returns' = Append(returns, Returned(OkReturn, files))
    /\ UNCHANGED <<changes, dirOk, fsKind, dirExists, files, next, st, late, ready, mkdirRes>>
    /\ UNCHANGED pvars

\* A future dropped before the open of its File::create was performed: the
\* open had been handed to the blocking pool and may still take effect after
\* the call has returned; nothing of the future runs after it, so nothing is
\* written.
Orphan(i) ==
    /\ wpc = "ret"
    /\ st[i] = "dropped_create"
    /\ LET r == FileCreate(files, EntryFileName(changes[i].path).name)
       IN  /\ files' = r.files
           /\ st' = [st EXCEPT ![i] = IF r.ok THEN "dropped_created" ELSE "dropped_failed"]
    /\ UNCHANGED <<wpc, changes, dirOk, fsKind, dirExists, next, wresult, returns, late, ready, mkdirRes>>
    /\ UNCHANGED pvars

\* The caller calls write_changes_to_dir again with the same arguments. The
\* writes of the call before that are still with the blocking pool stay
\* there: <<k, i>> is the write of entry i handed over by call k.
CallAgain ==
    /\ wpc = "ret"
    /\ Len(returns) < MaxCalls
    /\ wpc' = "mkdir"
    /\ next' = 1
    /\ st' = [i \in Idx |-> "queued"]
    /\ wresult' = NoReturn
    /\ late' = late \cup { <<Len(returns), i>> : i \in Outstanding }
    /\ ready' = <<>>
    /\ mkdirRes' = "none"
    /\ UNCHANGED <<changes, dirOk, fsKind, dirExists, files, returns>>
    /\ UNCHANGED pvars

\* The blocking pool performs a write handed over by an earlier call, on
\* the handle that call had created.
LateWriteDone(l) ==
    /\ l \in late
    /\ files' = BlockingWrite(files, EntryFileName(changes[l[2]].path).name,
                              changes[l[2]].content).files
    /\ late' = late \ {l}
    /\ UNCHANGED <<wpc, changes, dirOk, fsKind, dirExists, next, st, wresult, returns, ready, mkdirRes>>
    /\ UNCHANGED pvars

\* The guard's variables while the writer is the program under study.
PromptIdle ==
    /\ ppc = "done"
    /\ identifier = "id1"
    /\ version = "v1"
    /\ pull_request = [state |-> "Open", created_at |-> [date |-> "d1", time |-> "t1"], url |-> "u1"]
    /\ ciEnv = Unset
    /\ user = "closed"
    /\ stdout = <<>>
    /\ prompts = <<>>
    /\ presult = NoAnswer

WriterStart(cs) ==
    /\ \A i \in 1..Len(cs) : WithinBuffer(cs[i].content)
    /\ wpc = "mkdir"
    /\ changes = cs
    /\ dirExists = FALSE
    /\ files = NoFiles
    /\ next = 1
    /\ st = [i \in 1..Len(cs) |-> "queued"]
    /\ wresult = NoReturn
    /\ returns = <<>>
    /\ late = {}
    /\ ready = <<>>
    /\ mkdirRes = "none"

\* The kind of a file name that no entry of the change set resolves to
\* plays no part in the call: it is fixed.
KindsFor(cs) ==
    { f \in [FileNames -> Kinds] :
        \A n \in FileNames :
            (\A i \in 1..Len(cs) : FileName(cs[i].path).name # n) => f[n] = "ok" }

\* One call, on a file system where operations can fail.
Init ==
    /\ PromptIdle
    /\ \E cs \in ChangeSets : WriterStart(cs) /\ fsKind \in KindsFor(cs)
    /\ dirOk \in BOOLEAN

Next ==
    \/ BlockingCreateDirAll
    \/ CreateDirAll
    \/ Pull
    \/ \E i \in Idx : FirstPoll(i)
    \/ \E i \in Idx : BlockingCreateDone(i)
    \/ \E i \in Idx : Wake(i)
    \/ \E i \in Idx : CreateDone(i)
    \/ \E i \in Idx : BlockingWriteDone(i)
    \/ ReturnOk
    \/ \E i \in Idx : Orphan(i)

Spec == Init /\ [][Next]_vars

\* A step the call depends on: a step of the task that polls the stream, or
\* an operation the task awaits, performed by the pool, and its wake. The
\* writes of the blocking pool and the open a dropped future left behind
\* are not among them.
TaskStep ==
    \/ BlockingCreateDirAll
    \/ CreateDirAll
    \/ Pull
    \/ \E i \in Idx : FirstPoll(i)
    \/ \E i \in Idx : BlockingCreateDone(i)
    \/ \E i \in Idx : Wake(i)
    \/ \E i \in Idx : CreateDone(i)
    \/ ReturnOk

\* Every operation the call awaits (create_dir_all, File::create) completes
\* or fails, and the runtime polls the task when one has. Nothing is promised
\* for a write handed to the blocking pool or for the operation left behind
\* by a dropped future: the call awaits neither.
Fairness == WF_vars(TaskStep)

\* The inputs of the termination check: two entries with a file name and
\* one without.
LivePool == { e \in EntryPool : e.path \in { <<"a">>, <<"d", "/", "b">>, <<>> } }

InitLive ==
    /\ PromptIdle
    /\ \E n \in 0..MaxEntries : \E cs \in [1..n -> LivePool] :
          WriterStart(cs) /\ fsKind \in KindsFor(cs)
    /\ dirOk \in BOOLEAN

SpecLive == InitLive /\ [][Next]_vars /\ Fairness

\* The inputs of the calls in a row: entries with a file name, two of them
\* with the same one and contents of different lengths, and an entry without.
TwicePool == { e \in EntryPool : e.path \in { <<"a">>, <<"x", "/", "a">>, <<"d", "/", "b">>, <<>> } }

\* Calls in a row on the same directory, on a file system without failures.
InitTwice ==
    /\ PromptIdle
    /\ \E n \in 0..MaxTwice : \E cs \in [1..n -> TwicePool] : WriterStart(cs)
    /\ dirOk = TRUE
    /\ fsKind = [n \in FileNames |-> "ok"]

NextTwice ==
    \/ BlockingCreateDirAll
    \/ CreateDirAll
    \/ Pull
    \/ \E i \in Idx : FirstPoll(i)
    \/ \E i \in Idx : BlockingCreateDone(i)
    \/ \E i \in Idx : Wake(i)
    \/ \E i \in Idx : CreateDone(i)
    \/ \E i \in Idx : BlockingWriteDone(i)
    \/ ReturnOk
    \/ CallAgain
    \/ \E l \in late : LateWriteDone(l)

SpecTwice == InitTwice /\ [][NextTwice]_vars

\* The writer's variables while the guard is the program under study.
WriterIdle ==
    /\ wpc = "ret"
    /\ changes = <<>>
    /\ dirOk = TRUE
    /\ fsKind = [n \in FileNames |-> "ok"]
    /\ dirExists = FALSE
    /\ files = NoFiles
    /\ next = 1
    /\ st = <<>>
    /\ wresult = NoReturn
    /\ returns = <<>>
    /\ late = {}
    /\ ready = <<>>
    /\ mkdirRes = "none"

\* One call of prompt_existing_pull_request.
InitPrompt ==
    /\ WriterIdle
    /\ ppc = "print"
    /\ identifier \in {"id1", "id2"}
    /\ version \in {"v1", "v2"}
    /\ pull_request \in [state : PullRequestStates,
                         created_at : {[date |-> "d1", time |-> "t1"]},
                         url : {"u1"}]
    /\ ciEnv \in CiEnvs
    /\ user \in Users
    /\ stdout = <<>>
    /\ prompts = <<>>
    /\ presult = NoAnswer

NextPrompt ==
    \/ PrintStatus
    \/ PrintUrl
    \/ ReturnInCI
    \/ Confirm

SpecPrompt == InitPrompt /\ [][NextPrompt]_vars

----------------------------------------------------------------------------
\* Properties of prompt_existing_pull_request (checked under SpecPrompt)

\* C1: when CI is set to "true", the call returns Ok(false) and no
\* confirmation prompt is shown at any point of the call, whatever the
\* pull-request state, identifier and version.
C1_CiTrueReturnsFalseUnprompted ==
    ciEnv = SetTo("true") =>
        /\ prompts = <<>>
        /\ ppc = "done" => presult = Ok(FALSE)

C1_Witness ==
    /\ ciEnv = SetTo("true")
    /\ ppc = "done"
    /\ presult = Ok(FALSE)
    /\ pull_request.state = "Merged"
    /\ identifier = "id2"

\* C6: when CI is unset, the call shows the prompt "Would you like to
\* proceed?" exactly once and, if the prompt succeeds, returns the user's
\* answer: Ok(true) for yes, Ok(false) for no.
C6_UnsetPromptsOnceReturnsAnswer ==
    ciEnv = Unset =>
        /\ ppc # "done" => prompts = <<>>
        /\ ppc = "done" =>
              /\ prompts = <<"Would you like to proceed?">>
              /\ user = "yes" => presult = Ok(TRUE)
              /\ user = "no" => presult = Ok(FALSE)

C6_Witness ==
    /\ ciEnv = Unset
    /\ ppc = "done"
    /\ user = "yes"
    /\ presult = Ok(TRUE)
    /\ Len(prompts) = 1

\* C9: the status line names exactly one of three buckets: "a merged" for
\* Merged, "an open" for Open and "a closed" for every other state, the
\* catch-all state included.
C9_StatusLineBucket ==
    /\ ppc # "print" => Len(stdout) >= 1
    /\ Len(stdout) >= 1 =>
          stdout[1][2] = IF pull_request.state = "Merged" THEN "a merged"
                         ELSE IF pull_request.state = "Open" THEN "an open"
                         ELSE "a closed"

C9_Witness ==
    /\ pull_request.state = "Other"
    /\ Len(stdout) >= 1
    /\ stdout[1][2] = "a closed"

\* C11: when the confirmation prompt itself fails, the call returns the
\* error, neither Ok(true) nor Ok(false), and the prompt has been shown once
\* only: there is no retry.
C11_PromptErrorPropagates ==
    /\ Len(prompts) <= 1
    /\ (user = "closed" /\ ciEnv # SetTo("true") /\ ppc = "done") =>
          /\ presult = Err
          /\ prompts = <<"Would you like to proceed?">>

C11_Witness ==
    /\ user = "closed"
    /\ ppc = "done"
    /\ presult.kind = "err"
    /\ Len(prompts) = 1
    /\ ciEnv = Unset

\* The values of CI the claim names: none of them is the literal "true".
NotTrueValues == {"false", "1", "TRUE", "yes", ""}

\* C12: when CI is set to "false", "1", "TRUE", "yes" or "", the call acts
\* as when CI is absent: it shows the prompt once and returns the user's
\* answer (or the prompt's error).
C12_OtherCiValuesPrompt ==
    (ciEnv.set /\ ciEnv.unicode /\ ciEnv.val \in NotTrueValues) =>
        /\ ppc # "done" => prompts = <<>>
        /\ ppc = "done" =>
              /\ prompts = <<"Would you like to proceed?">>
              /\ user = "yes" => presult = Ok(TRUE)
              /\ user = "no" => presult = Ok(FALSE)
              /\ user = "closed" => presult = Err

C12_Witness ==
    /\ ciEnv = SetTo("TRUE")
    /\ ppc = "done"
    /\ user = "yes"
    /\ presult = Ok(TRUE)
    /\ prompts = <<"Would you like to proceed?">>

----------------------------------------------------------------------------
\* Properties of write_changes_to_dir (checked under Spec, SpecLive and
\* SpecTwice)

Named(i) == EntryFileName(changes[i].path).some
NameOf(i) == EntryFileName(changes[i].path).name

\* The entry's target can be created and written.
Writable(i) == Named(i) /\ fsKind[NameOf(i)] = "ok"

\* No operation of a dropped future is still outstanding.
Settled == \A i \in Idx : st[i] # "dropped_create"

\* The paths the claims name as having no file name.
NoFileNamePaths == { <<>>, <<"/">> }

\* C2: at most 2 entry writes are started and not yet completed or failed,
\* in every state and for every batch size; a further entry stays queued.
\* An entry's write has started when its file create has begun and has
\* completed when its content has been written.
C2_AtMostTwoInFlight ==
    Cardinality({ i \in 1..Len(changes) :
                    st[i] \in {"create", "created", "create_failed", "write"} }) <= 2

\* C3: the call returns Ok exactly if the directory was created and every
\* entry with a file name was created and written; if an entry's create or
\* write failed the call returns an error, and the error is that of an entry
\* that failed.
C3_OkIffAllSucceeded ==
    wpc = "ret" =>
        /\ wresult.kind \in {"ok", "err"}
        /\ wresult.kind = "ok" <=>
              (dirOk /\ \A i \in Idx : Named(i) => fsKind[NameOf(i)] = "ok")
        /\ (\E i \in Idx : st[i] \in {"failed", "lost"}) =>
              /\ wresult.kind = "err"
              /\ wresult.of \in Idx
              /\ st[wresult.of] \in {"failed", "lost"}

\* Exactly one entry targets an unwritable location, one where File::create
\* fails or one where the write fails, and every other entry with a file
\* name is writable.
OneUnwritable ==
    /\ dirOk
    /\ Cardinality({ i \in Idx : Named(i) /\ fsKind[NameOf(i)] # "ok" }) = 1

\* The unwritable entry of a change set that has exactly one.
Unwritable == CHOOSE i \in Idx : Named(i) /\ fsKind[NameOf(i)] # "ok"

\* C4 as stated: with exactly one unwritable entry, the call returns an
\* error and after it has returned the file of every writable entry exists.
\* Read in the claim's favour: only once nothing of the call is outstanding.
C4_Original ==
    (wpc = "ret" /\ OneUnwritable /\ Settled /\ Quiet) =>
        /\ wresult.kind = "err"
        /\ \A j \in Idx : Writable(j) => NameOf(j) \in DOMAIN files

\* C4 amended: with exactly one unwritable entry, the call returns that
\* entry's error if its File::create fails; if only its write fails, with
\* contents that fit one buffer of a file handle, it returns Ok. After the return
\* the file of every entry whose File::create has been performed exists,
\* whether its future resolved or was dropped with the stream; a writable
\* entry has no file only if it was still queued, or pushed and never
\* polled, or dropped with its File::create still to be performed.
C4_ErrorKeepsCreated ==
    (wpc = "ret" /\ OneUnwritable) =>
        /\ fsKind[NameOf(Unwritable)] = "ro" =>
              /\ wresult.kind = "err"
              /\ wresult.of = Unwritable
              /\ wresult.op = "create"
        /\ ( /\ fsKind[NameOf(Unwritable)] = "full"
             /\ \A k \in Idx : WithinBuffer(changes[k].content) ) =>
              wresult.kind = "ok"
        /\ \A j \in Idx : st[j] \in {"write", "done", "lost", "dropped_created"} =>
              NameOf(j) \in DOMAIN files
        /\ \A j \in Idx : Writable(j) =>
              \/ NameOf(j) \in DOMAIN files
              \/ st[j] \in {"queued", "unrun", "dropped_create"}

C4_Witness ==
    /\ wpc = "ret"
    /\ OneUnwritable
    /\ wresult.kind = "err"
    /\ Len(changes) = 3
    /\ wresult.of = 2
    /\ st[1] = "done" /\ NameOf(1) \in DOMAIN files
    /\ st[3] = "unrun" /\ Writable(3) /\ NameOf(3) \notin DOMAIN files

\* Every entry has a file name and no two entries have the same one.
AllNamedDistinct ==
    /\ \A i \in Idx : Named(i)
    /\ \A i, j \in Idx : i # j => NameOf(i) # NameOf(j)

\* C5: for entries with pairwise distinct file names whose creates and
\* writes all succeed, after the call has returned Ok on an empty directory,
\* the directory holds exactly one file per entry, named by the last
\* component of its path, with the entry's content:
\* [("a","hi"), ("d/b","wow")] gives a = "hi" and b = "wow".
C5_RoundTrip ==
    (wpc = "ret" /\ wresult.kind = "ok" /\ AllNamedDistinct
                 /\ \A i \in Idx : Writable(i)) =>
        /\ DOMAIN files = { NameOf(i) : i \in Idx }
        /\ Cardinality(DOMAIN files) = Len(changes)
        /\ \A i \in Idx : files[NameOf(i)] = changes[i].content
        /\ changes = << [path |-> <<"a">>, content |-> <<"h", "i">>],
                        [path |-> <<"d", "/", "b">>, content |-> <<"w", "o", "w">>] >>
              => files = (<<"a">> :> <<"h", "i">>) @@ (<<"b">> :> <<"w", "o", "w">>)

\* No two entries with a file name have the same one.
NamesDistinct ==
    \A i, j \in Idx : (i # j /\ Named(i) /\ Named(j)) => NameOf(i) # NameOf(j)

\* C7: an entry whose path is "" or "/" is skipped: its future never
\* creates or writes a file, the call's error is never its error, no file
\* appears for it, and the other entries are written as without it: each
\* has its file created and its content handed over, and written once the
\* write has been performed.
C7_NoFileNameSkipped ==
    /\ \A i \in Idx : changes[i].path \in NoFileNamePaths =>
          /\ st[i] \in {"queued", "pushed", "unrun", "skipped"}
          /\ wresult.kind = "err" => wresult.of # i
    /\ DOMAIN files \subseteq
          { NameOf(j) : j \in { k \in Idx : changes[k].path \notin NoFileNamePaths } }
    /\ ( /\ wpc = "ret"
         /\ dirOk
         /\ \A j \in Idx : changes[j].path \notin NoFileNamePaths => Writable(j) ) =>
          /\ wresult.kind = "ok"
          /\ \A j \in Idx : changes[j].path \notin NoFileNamePaths =>
                /\ st[j] \in {"write", "done"}
                /\ NameOf(j) \in DOMAIN files
                /\ (Quiet /\ NamesDistinct) => files[NameOf(j)] = changes[j].content

C7_Witness ==
    /\ wpc = "ret"
    /\ wresult.kind = "ok"
    /\ Len(changes) = 3
    /\ changes[1].path = <<>>
    /\ changes[2].path = <<"/">>
    /\ st[1] = "skipped"
    /\ st[2] = "skipped"
    /\ st[3] = "done"
    /\ files = (NameOf(3) :> changes[3].content)

\* The directory in which every entry with a file name has its content.
Expected ==
    [n \in { NameOf(i) : i \in { k \in Idx : Named(k) } } |->
        changes[CHOOSE i \in Idx : Named(i) /\ NameOf(i) = n].content]

\* C8 as stated: for every change set, two calls in a row both return Ok and
\* the directory after the second call equals the directory after the first.
\* Read in the claim's favour: the directory after a call is the one found
\* when every write handed over has been performed.
C8_Original ==
    (Len(returns) = 2 /\ wpc = "ret" /\ Quiet /\ returns[1].final # {}) =>
        /\ returns[1].result.kind = "ok"
        /\ returns[2].result.kind = "ok"
        /\ files \in returns[1].final

\* C8 amended: for every change set whose entries have pairwise distinct
\* file names, calls in a row all return Ok, and after each of them every
\* entry's file holds the entry's content or is still empty or as the call
\* before left it; once every write handed over has been performed the
\* directory is the same after each call: every file with its entry's
\* content.
C8_IdempotentDistinctNames ==
    NamesDistinct =>
        /\ \A k \in 1..Len(returns) : returns[k].result.kind = "ok"
        /\ \A n \in DOMAIN files : n \in DOMAIN Expected /\ files[n] \in { <<>>, Expected[n] }
        /\ (wpc = "ret" /\ Len(returns) >= 1) => DOMAIN files = DOMAIN Expected
        /\ (wpc = "ret" /\ Len(returns) >= 1 /\ Quiet) => files = Expected

C8_Witness ==
    /\ Len(returns) = 2
    /\ wpc = "ret"
    /\ Quiet
    /\ NamesDistinct
    /\ Len(changes) = 2
    /\ \A i \in Idx : Named(i)
    /\ returns[2].result.kind = "ok"
    /\ returns[1].final = {}
    /\ returns[2].final = {}
    /\ files = Expected
    /\ Cardinality(DOMAIN files) = 2

\* C10: if the output directory cannot be created, the call returns that
\* error at once: no entry's future is ever started, before or after the
\* return, and the directory holds no file.
C10_MkdirFailureWritesNothing ==
    ~dirOk =>
        /\ wpc # "stream"
        /\ next = 1
        /\ \A i \in Idx : st[i] = "queued"
        /\ files = NoFiles
        /\ ~dirExists
        /\ wpc = "ret" =>
              /\ wresult = ErrReturn(0, "mkdir")
              /\ returns = << [result |-> ErrReturn(0, "mkdir"), final |-> {NoFiles}] >>

C10_Witness ==
    /\ ~dirOk
    /\ wpc = "ret"
    /\ wresult.op = "mkdir"
    /\ Len(changes) >= 2
    /\ Writable(1)

\* C13: the output directory has been created before the file create of any
\* entry begins: while create_dir_all is pending no entry's future has been
\* started, and every started entry finds the directory in place.
C13_MkdirBeforeAnyWrite ==
    /\ wpc = "mkdir" => \A i \in Idx : st[i] = "queued"
    /\ (\E i \in Idx : st[i] # "queued") => (dirExists /\ wpc # "mkdir")

C13_Witness ==
    /\ wpc = "stream"
    /\ dirExists
    /\ Len(changes) >= 2
    /\ st[1] = "create"
    /\ st[2] = "create"
    /\ files = NoFiles

\* The segment after the last separator of a path.
LastSegment(path) == Segments(path)[Len(Segments(path))]

HasSeparator(name) == \E k \in 1..Len(name) : name[k] = "/"

\* C18: every file of the output directory is a direct child of it, named
\* by the last component alone of the path of an entry that was started:
\* no name has a separator or is a parent reference, so nothing is created
\* in a subdirectory or outside ("d/b" gives b, "../c" gives c).
C18_FlattenedIntoOutput ==
    /\ \A n \in DOMAIN files :
          /\ ~HasSeparator(n)
          /\ n \notin { <<>>, <<".">>, <<".", ".">> }
          /\ \E i \in Idx : /\ st[i] \notin {"queued", "pushed", "unrun", "skipped"}
                            /\ LastSegment(changes[i].path) = n
    /\ \A i \in Idx : st[i] \in {"created", "dropped_created", "write", "done", "lost"} =>
          /\ changes[i].path = <<"d", "/", "b">> => <<"b">> \in DOMAIN files
          /\ changes[i].path = <<".", ".", "/", "c">> => <<"c">> \in DOMAIN files

C18_Witness ==
    /\ wpc = "ret"
    /\ wresult.kind = "ok"
    /\ Len(changes) = 2
    /\ changes[1].path = <<".", ".", "/", "c">>
    /\ changes[2].path = <<"d", "/", "b">>
    /\ DOMAIN files = { <<"b">>, <<"c">> }

\* The entry's future has been polled: it has begun its File::create or has
\* been skipped. Before that the entry is in the change set ("queued") or
\* its future is in the buffer, not run ("pushed", and "unrun" once dropped).
Started(i) == st[i] \notin {"queued", "pushed", "unrun"}

\* The directories differ at most in the file `name`.
SameBut(name, fl, gl) ==
    /\ DOMAIN fl \ {name} = DOMAIN gl \ {name}
    /\ \A n \in DOMAIN fl \ {name} : fl[n] = gl[n]

\* C19: after the call has returned an entry's error, an entry that had not
\* been started, still in the change set or pushed into the buffer and never
\* polled, is never started, and the directory changes only in the file of
\* an entry that had been started before the return, by an operation that
\* entry had handed over: the File::create of a dropped future or the write
\* of a resolved one.
C19_NoStartAfterError ==
    [][ (wpc = "ret" /\ wresult.kind = "err") =>
            /\ \A i \in Idx : ~Started(i) => st'[i] = st[i]
            /\ files' # files =>
                  \E j \in Idx :
                      /\ \/ st[j] = "dropped_create" /\ st'[j] = "dropped_created"
                         \/ st[j] = "write" /\ st'[j] = "done"
                      /\ SameBut(NameOf(j), files, files') ]_vars

C19_Witness ==
    /\ wpc = "ret"
    /\ wresult.kind = "err"
    /\ wresult.of = 2
    /\ Len(changes) = 3
    /\ Started(1)
    /\ st[3] = "unrun"
    /\ Writable(3)
    /\ NameOf(3) \notin DOMAIN files
    /\ Settled
    /\ Quiet

\* C20: entries are started in change-set order: the future of an entry is
\* polled for the first time, beginning its File::create, only after the
\* future of every entry before it has been (started or skipped), and the
\* stream yields the entries in order, whatever the order of completion.
C20_StartedInOrder ==
    /\ \A i, j \in Idx : (i < j /\ Started(j)) => Started(i)
    /\ \A i, j \in Idx : (i < j /\ st[j] # "queued") => st[i] # "queued"
    /\ \A i \in Idx : st[i] = "queued" <=> i >= next

C20_Witness ==
    /\ Len(changes) = 3
    /\ st[1] = "create"
    /\ st[2] = "done"
    /\ st[3] = "create"

\* Entries i and j, i before j, resolve to the same file name and no third
\* entry does.
OnlyTwoCollide(i, j) ==
    /\ i < j
    /\ Named(i) /\ Named(j)
    /\ NameOf(i) = NameOf(j)
    /\ \A k \in Idx \ {i, j} : Named(k) => NameOf(k) # NameOf(i)

\* The bytes `top` laid over the start of `under`.
Overlay(top, under) ==
    [k \in 1..(IF Len(top) > Len(under) THEN Len(top) ELSE Len(under)) |->
        IF k <= Len(top) THEN top[k] ELSE under[k]]

\* C14 as stated: when two entries resolve to the same file name, all writes
\* succeed and the call returns Ok, the file holds the content of the later
\* entry of the two. Read in the claim's favour: once every write handed
\* over has been performed.
C14_Original ==
    (wpc = "ret" /\ wresult.kind = "ok" /\ Quiet /\ \A k \in Idx : Named(k) => Writable(k)) =>
        \A i, j \in Idx : OnlyTwoCollide(i, j) =>
            files[NameOf(j)] = changes[j].content

\* C14 amended: when two entries resolve to the same file name, every
\* content fits one buffer of a file handle (at most 2 MiB), all writes
\* succeed and the call returns Ok, the file holds the content of one of the
\* two entries, the earlier or the later, either alone or laid over the
\* start of the other entry's content, as the two create-then-write
\* sequences interleave; while a write of the two is still to be performed
\* the file may also be empty.
C14_CollisionOutcomes ==
    ( /\ wpc = "ret"
      /\ wresult.kind = "ok"
      /\ \A k \in Idx : WithinBuffer(changes[k].content)
      /\ \A k \in Idx : Named(k) => Writable(k) ) =>
        \A i, j \in Idx : OnlyTwoCollide(i, j) =>
            /\ files[NameOf(j)] \in
                  { <<>>, changes[i].content, changes[j].content,
                    Overlay(changes[i].content, changes[j].content),
                    Overlay(changes[j].content, changes[i].content) }
            /\ Quiet => files[NameOf(j)] \in
                  { changes[i].content, changes[j].content,
                    Overlay(changes[i].content, changes[j].content),
                    Overlay(changes[j].content, changes[i].content) }

C14_Witness ==
    /\ wpc = "ret"
    /\ wresult.kind = "ok"
    /\ Quiet
    /\ Len(changes) = 2
    /\ changes[1] = [path |-> <<"a">>, content |-> <<"h", "i">>]
    /\ changes[2] = [path |-> <<"x", "/", "a">>, content |-> <<"w", "o", "w">>]
    /\ OnlyTwoCollide(1, 2)
    /\ Writable(1)
    /\ files[<<"a">>] = <<"h", "i", "w">>

\* C15: a sibling whose file create had begun when another entry failed is
\* not halted: it runs on to its completion, its file holding its full
\* content, or to its own failure, and is never left between the file create
\* and the content write. Read in the claim's favour: once nothing of the
\* call is outstanding, with pairwise distinct file names, no other entry of
\* the change set failing.
C15_SiblingRunsOn ==
    (wpc = "ret" /\ wresult.kind = "err" /\ NamesDistinct /\ Settled /\ Quiet) =>
        \A j \in Idx : (Started(j) /\ Writable(j)) =>
            /\ NameOf(j) \in DOMAIN files
            /\ files[NameOf(j)] = changes[j].content

\* C16 as stated: when the call returns an entry's error, every entry whose
\* write had completed has its file on disk with its full content.
C16_Original ==
    (wpc = "ret" /\ wresult.kind = "err" /\ wresult.of \in Idx) =>
        \A j \in Idx : st[j] = "done" =>
            /\ NameOf(j) \in DOMAIN files
            /\ files[NameOf(j)] = changes[j].content

\* No other entry resolves to the file name of entry j.
NameUnshared(j) == \A k \in Idx \ {j} : Named(k) => NameOf(k) # NameOf(j)

\* C16 amended: when the call returns an entry's error, every entry whose
\* write had been performed, and whose file name no other entry of the
\* change set resolves to, has its file on disk with its full content, at
\* the return and ever after.
C16_CompletedKept ==
    (wpc = "ret" /\ wresult.kind = "err" /\ wresult.of \in Idx) =>
        \A j \in Idx : (st[j] = "done" /\ NameUnshared(j)) =>
            /\ NameOf(j) \in DOMAIN files
            /\ files[NameOf(j)] = changes[j].content

C16_Witness ==
    /\ wpc = "ret"
    /\ wresult.kind = "err"
    /\ Settled
    /\ \E k \in Idx : st[k] = "dropped_created"
    /\ \E j \in Idx : /\ st[j] = "done"
                      /\ NameUnshared(j)
                      /\ files[NameOf(j)] = changes[j].content

\* C17: if every file-system operation the call awaits completes or fails,
\* the call returns: Ok once the future of every entry has resolved, or the
\* error of the first entry that failed; it does not stay for ever with an
\* entry queued and room in the buffer.
C17_EventuallyReturns ==
    <>( /\ wpc = "ret"
        /\ wresult.kind \in {"ok", "err"}
        /\ wresult.kind = "ok" =>
              \A i \in Idx : st[i] \in {"write", "done", "lost", "skipped"} )

C17_Witness ==
    /\ wpc = "ret"
    /\ wresult.kind = "ok"
    /\ Len(changes) = 3
    /\ st[1] = "done"
    /\ st[2] = "skipped"
    /\ st[3] = "write"

====
